---- MODULE Spec2Model ----
(***************************************************************************)
(* Model of quicksilver-roguelike (src/src/main.rs): the map generator,    *)
(* the entity list, the glyph atlas built from the tilemap font, and the   *)
(* per-frame draw pass of Game.                                            *)
(*                                                                         *)
(* Three specifications share the variables:                               *)
(*   SpecGen   generate_map applied to every size in 0..MaxDim x 0..MaxDim *)
(*   Spec      the game: the state after Game::new, then draw passes       *)
(*   SpecAtlas the same draw passes over an atlas whose source string may  *)
(*             lack one of the four glyphs                                 *)
(***************************************************************************)
EXTENDS Integers, Sequences, FiniteSets

VARIABLES
    gen_width,           \* generate_map: argument width
    gen_height,          \* generate_map: argument height
    overflow_checks,     \* build profile: TRUE = usize underflow panics, FALSE = it wraps
    gen_out,             \* generate_map: [called, out], out = [tiles, underflow, panicked]
    tilemap_source,      \* the string the tilemap future slices into glyphs
    title,               \* Game.title: "Loading" | "Loaded"
    mononoki_font_info,  \* Game.mononoki_font_info: "Loading" | "Loaded"
    square_font_info,    \* Game.square_font_info: "Loading" | "Loaded"
    tilemap,             \* Game.tilemap: [state, data], data the glyph -> sub-image map
    map,                 \* Game.map
    entities,            \* Game.entities
    player_id,           \* Game.player_id (an index counted from 0)
    ops,                 \* the window calls of the latest draw pass, in order
    result,              \* what the latest draw pass returned: "None" before the first
    polled               \* per execute call of the latest pass: what the asset answered

vars == <<gen_width, gen_height, overflow_checks, gen_out, tilemap_source, title,
          mononoki_font_info, square_font_info, tilemap, map, entities, player_id,
          ops, result, polled>>

\* ---------------------------------------------------------------- bounds

\* Largest width and height generate_map is applied to in SpecGen.
MaxDim == 7

\* ------------------------------------------------------ program constants

MapWidth == 20
MapHeight == 15
CellWidth == 24
CellHeight == 24
OffsetX == 50
OffsetY == 150
\* window.screen_size(): the size the window is created with.
ScreenWidth == 800
ScreenHeight == 600
TitleCenterY == 40
CaptionX == 2
CellPixels == 24
MononokiCaptionUp == 60
SquareCaptionUp == 30

\* Stands for usize::MAX: above every loop index, and only compared with them.
UsizeMax == 2147483647

\* ------------------------------------------------------------ generate_map

\* `a - b` on usize: the difference, or usize::MAX - (b - a) + 1 with the
\* underflow recorded (a panic when overflow checks are on, a wrap otherwise).
usize_sub(a, b) ==
    IF a >= b THEN [val |-> a - b, underflow |-> FALSE]
    ELSE [val |-> UsizeMax - (b - a) + 1, underflow |-> TRUE]

\* A plausible slip: the far edges compared with width and height themselves.
IsEdge_off_by_one(x, y, width, height) ==
    [val |-> (x = 0 \/ x = width \/ y = 0 \/ y = height), underflow |-> FALSE]

\* x == 0 || x == width - 1 || y == 0 || y == height - 1, left to right with
\* short-circuit: a subtraction is evaluated only when the operands before it
\* were false.
IsEdge(x, y, width, height) ==
    IF x = 0 THEN [val |-> TRUE, underflow |-> FALSE]
    ELSE LET w1 == usize_sub(width, 1) IN
         IF x = w1.val THEN [val |-> TRUE, underflow |-> w1.underflow]
         ELSE IF y = 0 THEN [val |-> TRUE, underflow |-> w1.underflow]
         ELSE LET h1 == usize_sub(height, 1) IN
              [val |-> (y = h1.val), underflow |-> w1.underflow \/ h1.underflow]

\* The tile pushed for cell (x, y): floor, made a wall when edge holds.
NewTile(x, y, edge) ==
    [x |-> x, y |-> y, glyph |-> IF edge THEN "#" ELSE ".", color |-> "BLACK"]

RECURSIVE InnerLoop(_, _, _, _, _, _)
\* for y in 0..height { ... map.push(tile) }, from y on.
InnerLoop(x, y, width, height, checks, acc) ==
    IF y >= height \/ acc.panicked THEN acc
    ELSE LET c == IsEdge(x, y, width, height)
             next == IF c.underflow /\ checks
                     THEN [acc EXCEPT !.underflow = TRUE, !.panicked = TRUE]
                     ELSE [acc EXCEPT !.tiles = Append(acc.tiles, NewTile(x, y, c.val)),
                                      !.underflow = acc.underflow \/ c.underflow]
         IN InnerLoop(x, y + 1, width, height, checks, next)

RECURSIVE OuterLoop(_, _, _, _, _)
\* for x in 0..width { for y in 0..height { ... } }, from x on.
OuterLoop(x, width, height, checks, acc) ==
    IF x >= width \/ acc.panicked THEN acc
    ELSE OuterLoop(x + 1, width, height, checks,
                   InnerLoop(x, 0, width, height, checks, acc))

\* A plausible slip: the last column and row computed once, before the loops.
generate_map_hoisted(width, height, checks) ==
    LET w1 == usize_sub(width, 1)
        h1 == usize_sub(height, 1)
        uf == w1.underflow \/ h1.underflow
        start == [tiles |-> <<>>, underflow |-> uf, panicked |-> uf /\ checks]
    IN OuterLoop(0, width, height, checks, start)

\* fn generate_map(width: usize, height: usize) -> Vec<Tile>
generate_map(width, height, checks) ==
    OuterLoop(0, width, height, checks,
              [tiles |-> <<>>, underflow |-> FALSE, panicked |-> FALSE])

\* ------------------------------------------------------- generate_entities

\* fn generate_entities() -> Vec<Entity>
generate_entities ==
    << [x |-> 9, y |-> 6, glyph |-> "g", color |-> "RED"],
       [x |-> 2, y |-> 4, glyph |-> "g", color |-> "RED"] >>

\* The entity Game::new pushes after the generated ones.
Player == [x |-> 5, y |-> 3, glyph |-> "@", color |-> "BLUE"]

\* A plausible slip: the length taken after the push.
NewPlayerId_after_push == Len(Append(generate_entities, Player))

\* let player_id = entities.len();  (before the push)
NewPlayerId == Len(generate_entities)

\* entities.push(Entity { x: 5, y: 3, glyph: '@', color: Color::BLUE })
NewEntities == Append(generate_entities, Player)

\* ------------------------------------------------------------ the tilemap

\* let tilemap_source = "#@g.", one character per element.
TilemapSource == << "#", "@", "g", "." >>

EmptyMap == [g \in {} |-> 0]

\* HashMap::insert: the key is added, or its value replaced.
Insert(m, key, value) ==
    [g \in DOMAIN m \cup {key} |-> IF g = key THEN value ELSE m[g]]

\* A plausible slip: the index used as the horizontal position, unscaled.
Subimage_unscaled(index, width, height) ==
    [src |-> "tiles", x |-> index, y |-> 0, w |-> width, h |-> height]

\* tiles.subimage(Rectangle::new((index as i32 * width, 0), (width, height)))
Subimage(index, width, height) ==
    [src |-> "tiles", x |-> index * width, y |-> 0, w |-> width, h |-> height]

RECURSIVE InsertGlyphs(_, _, _, _, _)
\* for (index, glyph) in tilemap_source.chars().enumerate() { ... }, from index on.
InsertGlyphs(source, index, width, height, acc) ==
    IF index >= Len(source) THEN acc
    ELSE InsertGlyphs(source, index + 1, width, height,
                      Insert(acc, source[index + 1], Subimage(index, width, height)))

\* The value the tilemap future resolves to.
BuildTilemap(source) == InsertGlyphs(source, 0, CellWidth, CellHeight, EmptyMap)

\* --------------------------------------------------------------- Game::draw

\* The execute calls of one draw pass, in program order.
Calls == << "title", "mononoki_font_info", "square_font_info", "tiles", "entities" >>

TextAssets == {"title", "mononoki_font_info", "square_font_info"}

\* What polling a text asset's future can answer.
TextOutcomes == {"NotReady", "Ready", "Err"}

\* The tilemap future can also panic: render(...).expect(...).
TilemapOutcomes == {"NotReady", "Ready", "Err", "Panic"}

NoImage == [src |-> "none", x |-> 0, y |-> 0, w |-> 0, h |-> 0]

\* A rendered text image; its extent is the font's and is not modelled.
TextImage(name) == [src |-> name, x |-> 0, y |-> 0, w |-> 0, h |-> 0]

\* window.clear(Color::WHITE)
ClearOp ==
    [kind |-> "clear", who |-> "window", index |-> 0, image |-> NoImage,
     anchor |-> "none", x |-> 0, y |-> 0, w |-> 0, h |-> 0, color |-> "WHITE"]

\* window.draw(&image.area().with_center((screen_size.x / 2, 40)), Img(&image))
TitleOp ==
    [kind |-> "img", who |-> "title", index |-> 0, image |-> TextImage("title"),
     anchor |-> "center", x |-> ScreenWidth \div 2, y |-> TitleCenterY,
     w |-> 0, h |-> 0, color |-> "none"]

\* window.draw(&image.area().translate((2, screen_size.y - up)), Img(&image))
CaptionOp(name, up) ==
    [kind |-> "img", who |-> name, index |-> 0, image |-> TextImage(name),
     anchor |-> "top_left", x |-> CaptionX, y |-> ScreenHeight - up,
     w |-> 0, h |-> 0, color |-> "none"]

\* A plausible slip: the grid offset's coordinates exchanged.
BlendedOp_swapped(who, index, item, image) ==
    [kind |-> "blended", who |-> who, index |-> index, image |-> image,
     anchor |-> "top_left",
     x |-> OffsetY + item.x * CellPixels, y |-> OffsetX + item.y * CellPixels,
     w |-> image.w, h |-> image.h, color |-> item.color]

\* window.draw(&Rectangle::new(offset.translate((item.x * 24, item.y * 24)),
\*                              image.area().size()), Blended(&image, item.color))
\* who and index record which loop and which element issued the call.
BlendedOp(who, index, item, image) ==
    [kind |-> "blended", who |-> who, index |-> index, image |-> image,
     anchor |-> "top_left",
     x |-> OffsetX + item.x * CellPixels, y |-> OffsetY + item.y * CellPixels,
     w |-> image.w, h |-> image.h, color |-> item.color]

\* A plausible slip: errors of the calls ignored instead of returned with `?`.
Returned_ignoring_errors(fs) == fs.result = "Panic"

\* The pass has returned (an Err left through `?`) or unwound (a panic).
Returned(fs) == fs.result # "Running"

\* window.clear(Color::WHITE)?
Clear(fs, clear_ok) ==
    IF Returned(fs) THEN fs
    ELSE IF clear_ok THEN [fs EXCEPT !.ops = Append(@, ClearOp)]
    ELSE [fs EXCEPT !.result = "Err"]

\* Asset::execute's view of the asset: "Loaded" when it already is, else what
\* polling its future answers.
Poll(state, outcome) == IF state = "Loaded" THEN "Loaded" ELSE outcome

\* A plausible slip: an asset that is still loading made the call's error.
ExecuteText_not_ready_is_error(fs, name, outcome, op) ==
    IF Returned(fs) THEN fs
    ELSE LET answer == Poll(fs[name], outcome) IN
         CASE answer \in {"Loaded", "Ready"} ->
                  [fs EXCEPT ![name] = "Loaded", !.ops = Append(@, op),
                             !.polled[name] = answer]
           [] answer = "NotReady" -> [fs EXCEPT !.polled[name] = answer, !.result = "Err"]
           [] OTHER -> [fs EXCEPT !.polled[name] = "Err", !.result = "Err"]

\* self.<name>.execute(|image| { window.draw(...); Ok(()) })?
\* The closure runs when the asset is, or has just become, loaded; a future
\* that is not ready leaves the call Ok(()) with the closure not run; a failed
\* future is the call's Err.
ExecuteText(fs, name, outcome, op) ==
    IF Returned(fs) THEN fs
    ELSE LET answer == Poll(fs[name], outcome) IN
         CASE answer \in {"Loaded", "Ready"} ->
                  [fs EXCEPT ![name] = "Loaded", !.ops = Append(@, op),
                             !.polled[name] = answer]
           [] answer = "NotReady" -> [fs EXCEPT !.polled[name] = answer]
           [] OTHER -> [fs EXCEPT !.polled[name] = "Err", !.result = "Err"]

\* A plausible slip: the loop left at the first glyph the tilemap lacks.
Found_until_miss(atlas, items) ==
    LET misses == {k \in 1..Len(items) : items[k].glyph \notin DOMAIN atlas}
    IN [k \in 1..(IF misses = {} THEN Len(items)
                  ELSE (CHOOSE m \in misses : \A n \in misses : m <= n) - 1) |-> k]

\* The elements for which `if let Some(image) = tilemap.get(&item.glyph)`
\* matches, by their place in items, in iteration order.
Found(atlas, items) ==
    SelectSeq([k \in 1..Len(items) |-> k], LAMBDA k : items[k].glyph \in DOMAIN atlas)

\* for item in items.iter() { if let Some(image) = tilemap.get(&item.glyph)
\* { window.draw(...) } }: the draw calls the loop issues, in order.
DrawEach(atlas, items, who) ==
    LET found == Found(atlas, items) IN
    [j \in 1..Len(found) |->
        BlendedOp(who, found[j], items[found[j]], atlas[items[found[j]].glyph])]

\* tilemap.execute(|tilemap| { for ... ; Ok(()) })?  over the items of `call`.
ExecuteTilemap(fs, call, items, who, outcome) ==
    IF Returned(fs) THEN fs
    ELSE LET answer == Poll(fs.tilemap.state, outcome) IN
         CASE answer \in {"Loaded", "Ready"} ->
                  LET loaded == IF answer = "Loaded" THEN fs.tilemap
                                ELSE [state |-> "Loaded",
                                      data |-> BuildTilemap(fs.tilemap_source)]
                  IN [fs EXCEPT !.tilemap = loaded, !.polled[call] = answer,
                                !.ops = @ \o DrawEach(loaded.data, items, who)]
           [] answer = "NotReady" -> [fs EXCEPT !.polled[call] = answer]
           [] answer = "Panic" -> [fs EXCEPT !.polled[call] = answer, !.result = "Panic"]
           [] OTHER -> [fs EXCEPT !.polled[call] = "Err", !.result = "Err"]

\* A plausible slip: the map drained by the tile loop instead of borrowed.
ExecuteTiles_drain(fs, outcome) ==
    LET out == ExecuteTilemap(fs, "tiles", fs.map, "tile", outcome) IN
    IF out.polled["tiles"] \in {"Loaded", "Ready"} THEN [out EXCEPT !.map = <<>>] ELSE out

\* let (tilemap, map) = (&mut self.tilemap, &self.map); tilemap.execute(...)?
ExecuteTiles(fs, outcome) == ExecuteTilemap(fs, "tiles", fs.map, "tile", outcome)

\* let (tilemap, entities) = (&mut self.tilemap, &self.entities); tilemap.execute(...)?
ExecuteEntities(fs, outcome) ==
    ExecuteTilemap(fs, "entities", fs.entities, "entity", outcome)

\* The trailing Ok(()).
Finish(fs) == IF Returned(fs) THEN fs ELSE [fs EXCEPT !.result = "Ok"]

\* Entry of draw: nothing issued to the window and no asset asked yet.
Begin(self) ==
    [title |-> self.title, mononoki_font_info |-> self.mononoki_font_info,
     square_font_info |-> self.square_font_info, tilemap |-> self.tilemap,
     tilemap_source |-> self.tilemap_source,
     map |-> self.map, entities |-> self.entities, player_id |-> self.player_id,
     ops |-> <<>>, result |-> "Running",
     polled |-> [c \in {Calls[k] : k \in DOMAIN Calls} |-> "NotCalled"]]

\* A plausible slip: the entity loop placed before the tile loop.
DrawPass_entities_first(self, clear_ok, o1, o2, o3, o4, o5) ==
    LET s1 == Clear(Begin(self), clear_ok)
        s2 == ExecuteText(s1, "title", o1, TitleOp)
        s3 == ExecuteText(s2, "mononoki_font_info", o2,
                          CaptionOp("mononoki_font_info", MononokiCaptionUp))
        s4 == ExecuteText(s3, "square_font_info", o3,
                          CaptionOp("square_font_info", SquareCaptionUp))
        s5 == ExecuteEntities(s4, o5)
        s6 == ExecuteTiles(s5, o4)
    IN Finish(s6)

\* fn draw(&mut self, window: &mut Window) -> Result<()>
DrawPass(self, clear_ok, o1, o2, o3, o4, o5) ==
    LET s1 == Clear(Begin(self), clear_ok)
        s2 == ExecuteText(s1, "title", o1, TitleOp)
        s3 == ExecuteText(s2, "mononoki_font_info", o2,
                          CaptionOp("mononoki_font_info", MononokiCaptionUp))
        s4 == ExecuteText(s3, "square_font_info", o3,
                          CaptionOp("square_font_info", SquareCaptionUp))
        s5 == ExecuteTiles(s4, o4)
        s6 == ExecuteEntities(s5, o5)
    IN Finish(s6)

\* ------------------------------------------------------------------ states

\* The fields of Game, with the string its tilemap future has captured.
Self ==
    [title |-> title, mononoki_font_info |-> mononoki_font_info,
     square_font_info |-> square_font_info, tilemap |-> tilemap,
     tilemap_source |-> tilemap_source,
     map |-> map, entities |-> entities, player_id |-> player_id]

\* Game::new: every asset a future not yet polled; the map, the entities and
\* the player id computed.
InitGame(source) ==
    /\ overflow_checks \in BOOLEAN
    /\ gen_width = MapWidth
    /\ gen_height = MapHeight
    /\ gen_out = [called |-> TRUE,
                  out |-> generate_map(MapWidth, MapHeight, overflow_checks)]
    /\ tilemap_source = source
    /\ title = "Loading"
    /\ mononoki_font_info = "Loading"
    /\ square_font_info = "Loading"
    /\ tilemap = [state |-> "Loading", data |-> EmptyMap]
    /\ map = gen_out.out.tiles
    /\ entities = NewEntities
    /\ player_id = NewPlayerId
    /\ ops = <<>>
    /\ result = "None"
    /\ polled = [c \in {Calls[k] : k \in DOMAIN Calls} |-> "NotCalled"]

Init == InitGame(TilemapSource)

\* A loaded asset has no future left to poll.
Answers(state, outcomes) == IF state = "Loaded" THEN {"Loaded"} ELSE outcomes

\* The tilemap is asked twice in a pass; its future is polled the second time
\* only when the first poll found it not ready.
SecondAnswers(first) == IF first = "NotReady" THEN TilemapOutcomes ELSE {first}

\* One frame: the render loop calls draw; each future polled answers as the
\* loader has it at that moment.
Draw ==
    /\ result # "Panic"
    /\ \E clear_ok \in BOOLEAN,
          o1 \in Answers(title, TextOutcomes),
          o2 \in Answers(mononoki_font_info, TextOutcomes),
          o3 \in Answers(square_font_info, TextOutcomes),
          o4 \in Answers(tilemap.state, TilemapOutcomes) :
       \E o5 \in SecondAnswers(o4) :
          LET fs == DrawPass(Self, clear_ok, o1, o2, o3, o4, o5) IN
          /\ title' = fs.title
          /\ mononoki_font_info' = fs.mononoki_font_info
          /\ square_font_info' = fs.square_font_info
          /\ tilemap' = fs.tilemap
          /\ map' = fs.map
          /\ entities' = fs.entities
          /\ player_id' = fs.player_id
          /\ ops' = fs.ops
          /\ result' = fs.result
          /\ polled' = fs.polled
    /\ UNCHANGED <<gen_width, gen_height, overflow_checks, gen_out, tilemap_source>>

Next == Draw

Spec == Init /\ [][Next]_vars

\* The source strings of the atlas: the program's, and it with one glyph left out.
Sources ==
    { TilemapSource } \cup
    { SubSeq(TilemapSource, 1, k - 1) \o SubSeq(TilemapSource, k + 1, Len(TilemapSource)) :
          k \in DOMAIN TilemapSource }

InitAtlas == \E source \in Sources : InitGame(source)

SpecAtlas == InitAtlas /\ [][Next]_vars

\* generate_map called on each size up to MaxDim, under either build profile.
InitGen ==
    /\ overflow_checks \in BOOLEAN
    /\ gen_width \in 0..MaxDim
    /\ gen_height \in 0..MaxDim
    /\ gen_out = [called |-> FALSE,
                  out |-> [tiles |-> <<>>, underflow |-> FALSE, panicked |-> FALSE]]
    /\ tilemap_source = TilemapSource
    /\ title = "Loading"
    /\ mononoki_font_info = "Loading"
    /\ square_font_info = "Loading"
    /\ tilemap = [state |-> "Loading", data |-> EmptyMap]
    /\ map = <<>>
    /\ entities = <<>>
    /\ player_id = 0
    /\ ops = <<>>
    /\ result = "None"
    /\ polled = [c \in {Calls[k] : k \in DOMAIN Calls} |-> "NotCalled"]

Generate ==
    /\ ~gen_out.called
    /\ gen_out' = [called |-> TRUE,
                   out |-> generate_map(gen_width, gen_height, overflow_checks)]
    /\ UNCHANGED <<gen_width, gen_height, overflow_checks, tilemap_source, title,
                   mononoki_font_info, square_font_info, tilemap, map, entities,
                   player_id, ops, result, polled>>

NextGen == Generate

SpecGen == InitGen /\ [][NextGen]_vars

\* ---------------------------------------------------------------- claims

\* Place of a window call in the order of the statements of draw.
Rank(who) ==
    CASE who = "window" -> 0
      [] who = "title" -> 1
      [] who = "mononoki_font_info" -> 2
      [] who = "square_font_info" -> 3
      [] who = "tile" -> 4
      [] who = "entity" -> 5

\* Place of an execute call among the statements of draw.
CallRank(call) == CHOOSE k \in DOMAIN Calls : Calls[k] = call

\* The places in `items` whose draw call is in ops.
Drawn(who) == {ops[i].index : i \in {j \in 1..Len(ops) : ops[j].who = who}}

\* The window calls of `who` in ops.
OpsOf(who) == SelectSeq(ops, LAMBDA o : o.who = who)

\* The closure of this execute call ran in the latest pass.
Ran(call) == polled[call] \in {"Loaded", "Ready"}

\* C1: for width, height >= 2, generate_map returns width*height tiles, one
\* for each cell (x, y) of the grid and none repeated; a tile is a wall '#'
\* exactly when it lies on the outer ring and a floor '.' otherwise; all
\* tiles are black.
C1_MapBorder ==
    (gen_out.called /\ gen_width >= 2 /\ gen_height >= 2) =>
        LET tiles == gen_out.out.tiles IN
        /\ ~gen_out.out.panicked
        /\ Len(tiles) = gen_width * gen_height
        /\ \A x \in 0..(gen_width - 1), y \in 0..(gen_height - 1) :
               Cardinality({k \in 1..Len(tiles) : tiles[k].x = x /\ tiles[k].y = y}) = 1
        /\ \A k \in 1..Len(tiles) :
               /\ tiles[k].glyph \in {"#", "."}
               /\ tiles[k].glyph = "#" <=>
                      \/ tiles[k].x = 0
                      \/ tiles[k].x = gen_width - 1
                      \/ tiles[k].y = 0
                      \/ tiles[k].y = gen_height - 1
               /\ tiles[k].color = "BLACK"

\* A generated 4 x 3 map: ten walls around the floor tiles (1,1) and (2,1).
C1_Witness ==
    /\ gen_out.called
    /\ gen_width = 4
    /\ gen_height = 3
    /\ Len(gen_out.out.tiles) = 12
    /\ gen_out.out.tiles[5] = [x |-> 1, y |-> 1, glyph |-> ".", color |-> "BLACK"]

\* C10: for width < 2 or height < 2 (0 included) generate_map evaluates no
\* subtraction that underflows and does not panic; it returns width*height
\* tiles and every one is a wall.
C10_Degenerate ==
    (gen_out.called /\ (gen_width < 2 \/ gen_height < 2)) =>
        LET tiles == gen_out.out.tiles IN
        /\ ~gen_out.out.underflow
        /\ ~gen_out.out.panicked
        /\ Len(tiles) = gen_width * gen_height
        /\ \A k \in 1..Len(tiles) : tiles[k].glyph = "#"

\* A generated 1 x 3 map, under overflow checks: three walls.
C10_Witness ==
    /\ gen_out.called
    /\ overflow_checks
    /\ gen_width = 1
    /\ gen_height = 3
    /\ Len(gen_out.out.tiles) = 3
    /\ gen_out.out.tiles[3].glyph = "#"

\* C2: the entity list is two red 'g' adversaries at (9,6) and (2,4), then
\* the blue '@' protagonist at (5,3); player_id is the protagonist's index
\* (length - 1), and no other entity has the protagonist's glyph or tint.
C2_Entities ==
    /\ player_id = Len(entities) - 1
    /\ entities = << [x |-> 9, y |-> 6, glyph |-> "g", color |-> "RED"],
                     [x |-> 2, y |-> 4, glyph |-> "g", color |-> "RED"],
                     [x |-> 5, y |-> 3, glyph |-> "@", color |-> "BLUE"] >>
    /\ \A k \in 1..Len(entities) :
           (entities[k].glyph = "@" \/ entities[k].color = "BLUE") <=> (k = player_id + 1)

\* The game drawn at least once, the entity at player_id being the '@'.
C2_Witness ==
    /\ result = "Ok"
    /\ player_id = 2
    /\ Len(entities) = 3
    /\ entities[3].glyph = "@"

\* C3: the atlas built from "#@g." with 24 x 24 cells has exactly the keys
\* '#', '@', 'g', '.'; the image of the character at source index i is the
\* 24 x 24 rectangle at (i*24, 0) of the strip, so images of distinct keys
\* do not overlap.
C3_Atlas ==
    tilemap.state = "Loaded" =>
        LET atlas == tilemap.data IN
        /\ DOMAIN atlas = {"#", "@", "g", "."}
        /\ atlas["#"] = [src |-> "tiles", x |-> 0, y |-> 0, w |-> 24, h |-> 24]
        /\ atlas["@"] = [src |-> "tiles", x |-> 24, y |-> 0, w |-> 24, h |-> 24]
        /\ atlas["g"] = [src |-> "tiles", x |-> 48, y |-> 0, w |-> 24, h |-> 24]
        /\ atlas["."] = [src |-> "tiles", x |-> 72, y |-> 0, w |-> 24, h |-> 24]
        /\ \A g1, g2 \in DOMAIN atlas :
               g1 # g2 => \/ atlas[g1].x + atlas[g1].w <= atlas[g2].x
                          \/ atlas[g2].x + atlas[g2].w <= atlas[g1].x

\* The tilemap loaded, with four keys.
C3_Witness ==
    /\ tilemap.state = "Loaded"
    /\ Cardinality(DOMAIN tilemap.data) = 4
    /\ polled["tiles"] = "Ready"

\* C4: the window calls of a pass come in the order clear, title, the two
\* captions, the tiles in map order, the entities in list order; no tile is
\* drawn after an entity, so where both are drawn at one place the entity is
\* drawn last; a pass that skips nothing issues exactly that full sequence.
C4_DrawOrder ==
    /\ \A i \in 1..(Len(ops) - 1) :
           \/ Rank(ops[i].who) < Rank(ops[i + 1].who)
           \/ /\ ops[i].who = ops[i + 1].who
              /\ ops[i].who \in {"tile", "entity"}
              /\ ops[i].index < ops[i + 1].index
    /\ \A j \in 1..Len(ops) :
           ops[j].who = "entity" =>
               \A i \in (j + 1)..Len(ops) :
                   (ops[i].x = ops[j].x /\ ops[i].y = ops[j].y) => ops[i].who = "entity"
    /\ (result = "Ok" /\ \A k \in DOMAIN Calls : Ran(Calls[k])) =>
           [i \in 1..Len(ops) |-> <<ops[i].who, ops[i].index>>] =
               << <<"window", 0>>, <<"title", 0>>, <<"mononoki_font_info", 0>>,
                  <<"square_font_info", 0>> >>
               \o [k \in 1..Len(map) |-> <<"tile", k>>]
               \o [k \in 1..Len(entities) |-> <<"entity", k>>]

\* A complete pass: the entity at (9,6) drawn after the floor tile of (9,6).
C4_Witness ==
    /\ result = "Ok"
    /\ Len(ops) = 4 + Len(map) + Len(entities)
    /\ \E i, j \in 1..Len(ops) :
           /\ i < j
           /\ ops[i].who = "tile"
           /\ ops[j].who = "entity"
           /\ ops[i].x = ops[j].x
           /\ ops[i].y = ops[j].y

\* C5: a tile or entity whose glyph is no key of the atlas causes no error
\* and no draw and does not stop the pass: when the tile loop runs, exactly
\* the tiles whose glyph is a key are drawn, the entity loop runs too and
\* draws exactly the entities whose glyph is a key, and draw returns Ok.
C5_GlyphMiss ==
    /\ Ran("tiles") =>
           /\ Drawn("tile") = {k \in 1..Len(map) : map[k].glyph \in DOMAIN tilemap.data}
           /\ Ran("entities")
    /\ Ran("entities") =>
           /\ Drawn("entity") =
                  {k \in 1..Len(entities) : entities[k].glyph \in DOMAIN tilemap.data}
           /\ result = "Ok"

\* An atlas without '#': a pass that drew the floor tiles and all entities.
C5_Witness ==
    /\ tilemap_source = << "@", "g", "." >>
    /\ Ran("tiles")
    /\ result = "Ok"
    /\ "#" \notin DOMAIN tilemap.data
    /\ Len(OpsOf("tile")) = (MapWidth - 2) * (MapHeight - 2)
    /\ Len(OpsOf("entity")) = 3

\* Every asset is loaded.
AllLoaded ==
    /\ title = "Loaded"
    /\ mononoki_font_info = "Loaded"
    /\ square_font_info = "Loaded"
    /\ tilemap.state = "Loaded"

\* The latest pass found every asset already loaded when it began.
BeganLoaded == \A k \in DOMAIN Calls : polled[Calls[k]] = "Loaded"

\* C6: once all assets are loaded, a successful pass begun with them loaded
\* and the successful pass after it issue the identical sequence of window
\* calls; and no pass changes the map, the entity list, the player id or a
\* loaded atlas.
C6_Idempotent ==
    [][ /\ (AllLoaded /\ BeganLoaded /\ result = "Ok" /\ result' = "Ok") => ops' = ops
        /\ map' = map
        /\ entities' = entities
        /\ player_id' = player_id
        /\ tilemap.state = "Loaded" => tilemap' = tilemap ]_vars

\* A successful pass begun with every asset already loaded.
C6_Witness ==
    /\ AllLoaded
    /\ BeganLoaded
    /\ result = "Ok"
    /\ Len(ops) = 4 + Len(map) + Len(entities)

\* C7: each tile and entity at (x, y) that is drawn has its top-left corner
\* at pixel (50 + 24*x, 150 + 24*y); when the loops run with the program's
\* atlas all tiles and entities are drawn, the protagonist at (170, 222).
C7_Pixels ==
    /\ \A i \in 1..Len(ops) :
           /\ ops[i].who = "tile" =>
                  /\ ops[i].x = 50 + 24 * map[ops[i].index].x
                  /\ ops[i].y = 150 + 24 * map[ops[i].index].y
           /\ ops[i].who = "entity" =>
                  /\ ops[i].x = 50 + 24 * entities[ops[i].index].x
                  /\ ops[i].y = 150 + 24 * entities[ops[i].index].y
    /\ Ran("tiles") => Drawn("tile") = 1..Len(map)
    /\ Ran("entities") =>
           /\ Drawn("entity") = 1..Len(entities)
           /\ LET last == ops[Len(ops)] IN
              /\ last.who = "entity"
              /\ last.index = player_id + 1
              /\ last.image = tilemap.data["@"]
              /\ last.anchor = "top_left"
              /\ last.x = 170
              /\ last.y = 222

\* A complete pass whose last window call puts the '@' image at (170, 222).
C7_Witness ==
    /\ result = "Ok"
    /\ Ran("tiles")
    /\ Len(ops) = 4 + Len(map) + Len(entities)
    /\ ops[Len(ops)].x = 170
    /\ ops[Len(ops)].y = 222
    /\ ops[Len(ops)].color = "BLUE"

\* The pass failed at window.clear: it returned Err before any execute call.
ClearFailed ==
    /\ result = "Err"
    /\ ops = <<>>
    /\ \A k \in DOMAIN Calls : polled[Calls[k]] = "NotCalled"

C9_RequiredAssetFailure ==
    \A a \in TextAssets :
        polled[a] = "Err" =>
            /\ result = "Err"
            /\ \A i \in 1..Len(ops) : Rank(ops[i].who) < CallRank(a)
            /\ \A k \in DOMAIN Calls : k > CallRank(a) => polled[Calls[k]] = "NotCalled"
            /\ OpsOf("tile") = <<>>
            /\ OpsOf("entity") = <<>>

\* The first caption failed after clear and the title were drawn.
C9_Witness ==
    /\ polled["mononoki_font_info"] = "Err"
    /\ polled["title"] \in {"Loaded", "Ready"}
    /\ result = "Err"
    /\ Len(ops) = 2

====
